---- MODULE Spec2Model ----
(***************************************************************************)
(* Book-Library-API (src/main.go): a gin HTTP service over one SQLite      *)
(* table `books`.  Every HTTP request is served by its own goroutine; a    *)
(* handler is a short sequence of SQL statements, each of which SQLite     *)
(* executes atomically.  A request is one process of the model; the steps  *)
(* of a handler are the statements it sends to the database.               *)
(***************************************************************************)
EXTENDS Integers, Sequences, FiniteSets, TLC

\* ------------------------------------------------------------------ bounds
NumReqs == 3          \* requests served in one behaviour
NumProcs == 2         \* requests in flight at the same time (one goroutine each)
MaxQty == 1           \* largest quantity a POST body carries

Procs == 1..NumProcs

\* ids a request can carry: "" is what a body without "id" decodes to
IDs == {"", "b1"}
\* ids a path segment of GET /books/:id can carry (a segment is never empty)
PathIDs == IDs \ {""}
\* <<title, author>> pairs carried by POST bodies
Texts == {<<"T", "A">>, <<"U", "B">>}
\* quantities carried by POST bodies; the handler accepts any int
Quantities == -1..MaxQty

\* ------------------------------------------------------------------- state
VARIABLES
    db,          \* the rows of table books, in insertion order
    pc,          \* per goroutine: "idle", "insert" or "update"
    op,          \* per goroutine: the handler it runs
    req,         \* per goroutine: the decoded body (newBook / request)
    book,        \* per goroutine: the row the handler read (book)
    seen,        \* per goroutine: the row the table held for req.id on arrival
    solo,        \* per goroutine: no other request has been in flight with it
    out,         \* the exchange completed last: request, response, seen, solo
    tally,       \* per id: the item as created and the requests counted on it
    served,      \* requests that have arrived
    failing      \* the database may fail any statement (storage unavailable)

vars == <<db, pc, op, req, book, seen, solo, out, tally, served, failing>>

\* the zero value of struct book
ZeroBook == [id |-> "", title |-> "", author |-> "", quantity |-> 0]

\* c.IndentedJSON(status, gin.H{"message": ...})
Message(status, kind) ==
    [status |-> status, kind |-> kind, item |-> ZeroBook, list |-> <<>>, null |-> FALSE]

\* c.IndentedJSON(status, book)
ItemResp(status, kind, b) ==
    [status |-> status, kind |-> kind, item |-> b, list |-> <<>>, null |-> FALSE]

\* the list as it would be with the last row of the result set not read
ListResp_DropsLast(books) ==
    [status |-> 200, kind |-> "OK", item |-> ZeroBook,
     list |-> SubSeq(books, 1, Len(books) - 1), null |-> (Len(books) <= 1)]

\* c.IndentedJSON(http.StatusOK, books): a nil slice is encoded as null
ListResp(books) ==
    [status |-> 200, kind |-> "OK", item |-> ZeroBook, list |-> books, null |-> (books = <<>>)]

\* ------------------------------------------------------------ the database
\* SELECT ... FROM books WHERE id = ?  : the matching rows, in table order
SelectById(tbl, id) == SelectSeq(tbl, LAMBDA r : r.id = id)

HasId(tbl, id) == SelectById(tbl, id) # <<>>

\* Insert as it would be were the id column no key: every row is accepted
Insert_NoKey(tbl, b) == [err |-> FALSE, tbl |-> Append(tbl, b)]

\* Insert as it would be with INSERT OR REPLACE
Insert_Replace(tbl, b) ==
    IF HasId(tbl, b.id)
    THEN [err |-> FALSE,
          tbl |-> [i \in 1..Len(tbl) |-> IF tbl[i].id = b.id THEN b ELSE tbl[i]]]
    ELSE [err |-> FALSE, tbl |-> Append(tbl, b)]

\* INSERT INTO books(id, title, author, quantity) VALUES (?, ?, ?, ?)
\* id TEXT PRIMARY KEY: the insert is refused when a row has the id
Insert(tbl, b) ==
    IF HasId(tbl, b.id)
    THEN [err |-> TRUE, tbl |-> tbl]
    ELSE [err |-> FALSE, tbl |-> Append(tbl, b)]

\* Update as it would be without its WHERE clause
Update_NoWhere(tbl, id, d) ==
    [i \in 1..Len(tbl) |-> [tbl[i] EXCEPT !.quantity = @ + d]]

\* Update as it would be with SET quantity = d
Update_Assign(tbl, id, d) ==
    [i \in 1..Len(tbl) |->
        IF tbl[i].id = id THEN [tbl[i] EXCEPT !.quantity = d] ELSE tbl[i]]

\* UPDATE books SET quantity = quantity + d WHERE id = ?
Update(tbl, id, d) ==
    [i \in 1..Len(tbl) |->
        IF tbl[i].id = id THEN [tbl[i] EXCEPT !.quantity = @ + d] ELSE tbl[i]]

\* the SELECT of createBook scanned into existingBook.ID ("" when no row)
ExistingID(tbl, id, fail) ==
    IF ~fail /\ HasId(tbl, id) THEN SelectById(tbl, id)[1].id ELSE ""

\* getBookById as it would be with title and author swapped in Scan
getBookById_Swapped(tbl, id, fail) ==
    IF fail THEN [err |-> "db", b |-> ZeroBook]
    ELSE IF HasId(tbl, id)
         THEN [err |-> "none",
               b |-> [SelectById(tbl, id)[1] EXCEPT
                        !.title = SelectById(tbl, id)[1].author,
                        !.author = SelectById(tbl, id)[1].title]]
    ELSE [err |-> "norows", b |-> ZeroBook]

\* getBookById as it would be with the error of Scan dropped
getBookById_NoRowsOK(tbl, id, fail) ==
    IF ~fail /\ HasId(tbl, id)
    THEN [err |-> "none", b |-> SelectById(tbl, id)[1]]
    ELSE [err |-> "none", b |-> ZeroBook]

\* getBookById: QueryRow + Scan; err is "none", "norows" or "db"
getBookById(tbl, id, fail) ==
    IF fail THEN [err |-> "db", b |-> ZeroBook]
    ELSE IF HasId(tbl, id) THEN [err |-> "none", b |-> SelectById(tbl, id)[1]]
    ELSE [err |-> "norows", b |-> ZeroBook]

\* the empty-id test as it would be were it left out
MissingID_Skipped(request) == FALSE

\* checkoutBook, line 132, returnBook, line 170: request.ID == ""
MissingID(request) == request.id = ""

\* the quantity test as it would be with <= 1
OutOfStock_OffByOne(b) == b.quantity <= 1

\* the quantity test as it would be with < 0
OutOfStock_Strict(b) == b.quantity < 0

\* the quantity test as it would be inverted
OutOfStock_Inverted(b) == b.quantity > 0

\* the quantity test as it would be were it left out
OutOfStock_Never(b) == FALSE

\* checkoutBook, line 143: book.Quantity <= 0
OutOfStock(b) == b.quantity <= 0

\* the outcomes of one statement: it runs, or (storage unavailable) it fails
FaultChoices == IF failing THEN {FALSE, TRUE} ELSE {FALSE}

\* ----------------------------------------------------------- bookkeeping
\* what the table holds for an id, read off the rows themselves
NotSeen == [found |-> FALSE, b |-> ZeroBook]

Held(tbl, id) ==
    IF \E i \in 1..Len(tbl) : tbl[i].id = id
    THEN [found |-> TRUE, b |-> tbl[CHOOSE i \in 1..Len(tbl) : tbl[i].id = id]]
    ELSE NotSeen

NoTally == [made |-> FALSE, orig |-> ZeroBook,
            chk |-> 0, chkOK |-> 0, chkNo |-> 0, ret |-> 0, retOK |-> 0]

NoOut == [op |-> "none", ok |-> FALSE, req |-> ZeroBook, seen |-> NotSeen,
          solo |-> FALSE, resp |-> Message(0, "none")]

InFlight(q) == pc[q] # "idle"

\* goroutines are anonymous: a request takes the first free one
MayStart(p) ==
    /\ served < NumReqs
    /\ pc[p] = "idle"
    /\ \A q \in Procs : q < p => pc[q] # "idle"

Alone(p) == \A q \in Procs \ {p} : ~InFlight(q)

\* a request arrives and answers in the same step
Answer(o, ok, rq, r) ==
    /\ out' = [op |-> o, ok |-> ok, req |-> rq, seen |-> Held(db, rq.id),
               solo |-> \A q \in Procs : ~InFlight(q), resp |-> r]
    /\ solo' = [q \in Procs |-> FALSE]
    /\ served' = served + 1
    /\ UNCHANGED <<pc, op, req, book, seen>>

\* a request arrives in goroutine p and goes on to its second statement
Occupy(p, o, rq, b, to) ==
    /\ pc' = [pc EXCEPT ![p] = to]
    /\ op' = [op EXCEPT ![p] = o]
    /\ req' = [req EXCEPT ![p] = rq]
    /\ book' = [book EXCEPT ![p] = b]
    /\ seen' = [seen EXCEPT ![p] = Held(db, rq.id)]
    /\ solo' = [q \in Procs |-> q = p /\ Alone(p)]
    /\ served' = served + 1
    /\ UNCHANGED out

\* goroutines are anonymous: when p ends, those numbered after it move down
Drop(f, p, zero) ==
    [q \in Procs |-> IF q < p THEN f[q] ELSE IF q + 1 \in Procs THEN f[q + 1] ELSE zero]

\* goroutine p answers after its second statement and ends
Leave(p, r) ==
    /\ out' = [op |-> op[p], ok |-> TRUE, req |-> req[p], seen |-> seen[p],
               solo |-> solo[p], resp |-> r]
    /\ pc' = Drop(pc, p, "idle")
    /\ op' = Drop(op, p, "none")
    /\ req' = Drop(req, p, ZeroBook)
    /\ book' = Drop(book, p, ZeroBook)
    /\ seen' = Drop(seen, p, NotSeen)
    /\ solo' = [q \in Procs |-> FALSE]
    /\ UNCHANGED served

Count(id, field) == tally' = [tally EXCEPT ![id][field] = @ + 1]

\* --------------------------------------------------------- request bodies
\* POST /books: a body that BindJSON decodes into newBook.  No handler looks
\* at title or author: every quantity is sent with the first pair of Texts,
\* and the other pair, sent with quantity 0, tells two bodies of one id apart
CreateBodies ==
    {b \in {[id |-> i, title |-> t[1], author |-> t[2], quantity |-> q] :
                i \in IDs, t \in Texts, q \in Quantities} :
        b.title = "T" \/ b.quantity = 0}

\* PATCH /books/checkout, /books/return: a body that decodes into request
IdBodies == {[ZeroBook EXCEPT !.id = i] : i \in IDs}

\* a body BindJSON rejects decodes into nothing
Decoded(ok, bodies) == IF ok THEN bodies ELSE {ZeroBook}

\* ------------------------------------------------------------------- Init
Init ==
    /\ db = <<>>
    /\ pc = [p \in Procs |-> "idle"]
    /\ op = [p \in Procs |-> "none"]
    /\ req = [p \in Procs |-> ZeroBook]
    /\ book = [p \in Procs |-> ZeroBook]
    /\ seen = [p \in Procs |-> NotSeen]
    /\ solo = [p \in Procs |-> FALSE]
    /\ out = NoOut
    /\ tally = [i \in IDs |-> NoTally]
    /\ served = 0
    /\ failing = FALSE

InitFault ==
    /\ db = <<>>
    /\ pc = [p \in Procs |-> "idle"]
    /\ op = [p \in Procs |-> "none"]
    /\ req = [p \in Procs |-> ZeroBook]
    /\ book = [p \in Procs |-> ZeroBook]
    /\ seen = [p \in Procs |-> NotSeen]
    /\ solo = [p \in Procs |-> FALSE]
    /\ out = NoOut
    /\ tally = [i \in IDs |-> NoTally]
    /\ served = 0
    /\ failing = TRUE

\* ---------------------------------------------------------------- actions
\* createBook, lines 50-66: BindJSON, SELECT id ... WHERE id = ?, the 409 test
CreateCheck(p) ==
    /\ MayStart(p)
    /\ \E ok \in BOOLEAN : \E newBook \in Decoded(ok, CreateBodies) : \E f \in FaultChoices :
        LET existingID == ExistingID(db, newBook.id, f)
        IN  /\ ok \/ ~f
            /\ UNCHANGED failing
            /\ IF ~ok THEN Answer("create", ok, newBook, Message(400, "InvalidInput"))
               ELSE IF f THEN Answer("create", ok, newBook, Message(500, "StorageUnavailable"))
               ELSE IF existingID # "" THEN Answer("create", ok, newBook, Message(409, "Conflict"))
               ELSE Occupy(p, "create", newBook, ZeroBook, "insert")
    /\ UNCHANGED <<db, tally>>

\* createBook, lines 68-76: INSERT, then 201 with newBook
CreateInsert(p) ==
    /\ pc[p] = "insert"
    /\ \E f \in FaultChoices :
        LET ins == Insert(db, req[p])
        IN  /\ UNCHANGED failing
            /\ IF f \/ ins.err
               THEN /\ Leave(p, Message(500, "StorageUnavailable"))
                    /\ UNCHANGED <<db, tally>>
               ELSE /\ Leave(p, ItemResp(201, "Created", req[p]))
                    /\ db' = ins.tbl
                    /\ tally' = [tally EXCEPT ![req[p].id] =
                                    [NoTally EXCEPT !.made = TRUE, !.orig = req[p]]]

\* getBooks: SELECT id, title, author, quantity FROM books
GetBooks(p) ==
    /\ MayStart(p)
    /\ \E f \in FaultChoices :
        /\ UNCHANGED failing
        /\ IF f THEN Answer("list", TRUE, ZeroBook, Message(500, "StorageUnavailable"))
           ELSE Answer("list", TRUE, ZeroBook, ListResp(db))
    /\ UNCHANGED <<db, tally>>

\* GET /books/:id, lines 204-212
GetBook(p) ==
    /\ MayStart(p)
    /\ \E id \in PathIDs : \E f \in FaultChoices :
        LET got == getBookById(db, id, f)
            rq == [ZeroBook EXCEPT !.id = id]
        IN  /\ UNCHANGED failing
            /\ IF got.err # "none" THEN Answer("get", TRUE, rq, Message(404, "NotFound"))
               ELSE Answer("get", TRUE, rq, ItemResp(200, "OK", got.b))
    /\ UNCHANGED <<db, tally>>

\* checkoutBook, lines 122-146: BindJSON, the empty-id test, getBookById,
\* the quantity test
CheckoutRead(p) ==
    /\ MayStart(p)
    /\ \E ok \in BOOLEAN : \E request \in Decoded(ok, IdBodies) : \E f \in FaultChoices :
        LET got == getBookById(db, request.id, f)
            reads == ok /\ ~MissingID(request)
            id == request.id
        IN  /\ reads \/ ~f
            /\ UNCHANGED failing
            /\ IF ~reads
               THEN /\ Answer("checkout", ok, request, Message(400, "InvalidInput"))
                    /\ UNCHANGED tally
               ELSE IF got.err # "none"
               THEN /\ Answer("checkout", ok, request, Message(404, "NotFound"))
                    /\ UNCHANGED tally
               ELSE IF OutOfStock(got.b)
               THEN /\ Answer("checkout", ok, request, Message(400, "Unavailable"))
                    /\ tally' = [tally EXCEPT ![id].chk = @ + 1, ![id].chkNo = @ + 1]
               ELSE /\ Occupy(p, "checkout", request, got.b, "update")
                    /\ Count(id, "chk")
    /\ UNCHANGED db

\* checkoutBook's second statement as it would be were the new quantity
\* computed from the book read before: SET quantity = book.Quantity - 1
CheckoutUpdate_Stale(p) ==
    /\ pc[p] = "update"
    /\ op[p] = "checkout"
    /\ \E f \in FaultChoices :
        /\ UNCHANGED failing
        /\ IF f
           THEN /\ Leave(p, Message(500, "StorageUnavailable"))
                /\ UNCHANGED <<db, tally>>
           ELSE /\ Leave(p, ItemResp(200, "OK", book[p]))
                /\ db' = Update_Assign(db, req[p].id, book[p].quantity - 1)
                /\ Count(req[p].id, "chkOK")

\* checkoutBook's second statement as it would be were the response built
\* from the row after the UPDATE
CheckoutUpdate_Fresh(p) ==
    /\ pc[p] = "update"
    /\ op[p] = "checkout"
    /\ \E f \in FaultChoices :
        /\ UNCHANGED failing
        /\ IF f
           THEN /\ Leave(p, Message(500, "StorageUnavailable"))
                /\ UNCHANGED <<db, tally>>
           ELSE /\ Leave(p, ItemResp(200, "OK", Held(Update(db, req[p].id, -1), req[p].id).b))
                /\ db' = Update(db, req[p].id, -1)
                /\ Count(req[p].id, "chkOK")

\* checkoutBook, lines 148-155: the UPDATE, then 200 with the book read before
CheckoutUpdate(p) ==
    /\ pc[p] = "update"
    /\ op[p] = "checkout"
    /\ \E f \in FaultChoices :
        /\ UNCHANGED failing
        /\ IF f
           THEN /\ Leave(p, Message(500, "StorageUnavailable"))
                /\ UNCHANGED <<db, tally>>
           ELSE /\ Leave(p, ItemResp(200, "OK", book[p]))
                /\ db' = Update(db, req[p].id, -1)
                /\ Count(req[p].id, "chkOK")

\* returnBook, lines 160-179: BindJSON, the empty-id test, getBookById
ReturnRead(p) ==
    /\ MayStart(p)
    /\ \E ok \in BOOLEAN : \E request \in Decoded(ok, IdBodies) : \E f \in FaultChoices :
        LET got == getBookById(db, request.id, f)
            reads == ok /\ ~MissingID(request)
            id == request.id
        IN  /\ reads \/ ~f
            /\ UNCHANGED failing
            /\ IF ~reads
               THEN /\ Answer("return", ok, request, Message(400, "InvalidInput"))
                    /\ UNCHANGED tally
               ELSE IF got.err # "none"
               THEN /\ Answer("return", ok, request, Message(404, "NotFound"))
                    /\ UNCHANGED tally
               ELSE /\ Occupy(p, "return", request, got.b, "update")
                    /\ Count(id, "ret")
    /\ UNCHANGED db

\* returnBook's second statement as it would be were the new quantity
\* computed from the book read before: SET quantity = book.Quantity + 1
ReturnUpdate_Stale(p) ==
    /\ pc[p] = "update"
    /\ op[p] = "return"
    /\ \E f \in FaultChoices :
        /\ UNCHANGED failing
        /\ IF f
           THEN /\ Leave(p, Message(500, "StorageUnavailable"))
                /\ UNCHANGED <<db, tally>>
           ELSE /\ Leave(p, ItemResp(200, "OK", book[p]))
                /\ db' = Update_Assign(db, req[p].id, book[p].quantity + 1)
                /\ Count(req[p].id, "retOK")

\* returnBook, lines 181-188: the UPDATE, then 200 with the book read before
ReturnUpdate(p) ==
    /\ pc[p] = "update"
    /\ op[p] = "return"
    /\ \E f \in FaultChoices :
        /\ UNCHANGED failing
        /\ IF f
           THEN /\ Leave(p, Message(500, "StorageUnavailable"))
                /\ UNCHANGED <<db, tally>>
           ELSE /\ Leave(p, ItemResp(200, "OK", book[p]))
                /\ db' = Update(db, req[p].id, 1)
                /\ Count(req[p].id, "retOK")

Next ==
    \E p \in Procs :
        \/ CreateCheck(p)
        \/ CreateInsert(p)
        \/ GetBooks(p)
        \/ GetBook(p)
        \/ CheckoutRead(p)
        \/ CheckoutUpdate(p)
        \/ ReturnRead(p)
        \/ ReturnUpdate(p)

Spec == Init /\ [][Next]_vars

SpecFault == InitFault /\ [][Next]_vars

\* requests processed one at a time, every item created with quantity >= 0:
\* a request arrives only when no goroutine is between its two statements
OneAtATime ==
    /\ served' # served => \A p \in Procs : pc[p] = "idle"
    /\ \A p \in Procs : pc'[p] = "insert" => req'[p].quantity >= 0

NextSeq ==
    \E p \in Procs :
        \/ CreateCheck(p) /\ OneAtATime
        \/ CreateInsert(p) /\ OneAtATime
        \/ GetBooks(p) /\ OneAtATime
        \/ GetBook(p) /\ OneAtATime
        \/ CheckoutRead(p) /\ OneAtATime
        \/ CheckoutUpdate(p) /\ OneAtATime
        \/ ReturnRead(p) /\ OneAtATime
        \/ ReturnUpdate(p) /\ OneAtATime

SpecSeq == Init /\ [][NextSeq]_vars

\* ------------------------------------------------------------ vocabulary
Rows == 1..Len(db)

\* the goroutines between their two statements, by handler and id
Pending(name, id) == {p \in Procs : pc[p] # "idle" /\ op[p] = name /\ req[p].id = id}

\* the last exchange was served by the handler `name` for a non-empty id
Served(name) == out.op = name /\ out.ok /\ out.req.id # ""

\* what GetItem reports now
Reported(id) == getBookById(db, id, FALSE)

\* this step answers a request
Completes ==
    \/ served' # served /\ pc' = pc
    \/ \E p \in Procs : pc[p] # "idle" /\ pc'[p] = "idle"

\* ------------------------------------------------------------------ claims
\* C1: in every reachable state every stored item has quantity >= 0, whatever
\* bodies the requests carry and however the requests interleave.
C1_QuantityNonNegative == \A i \in Rows : db[i].quantity >= 0

\* C2: when k or k+1 checkouts (and nothing else) have run against an item
\* created with quantity k >= 1, exactly k of them succeeded, the stored
\* quantity is 0, and of k+1 exactly one was answered Unavailable.
C2_ConcurrentCheckouts ==
    \A id \in IDs :
        LET t == tally[id]
            k == t.orig.quantity
        IN  (/\ t.made
             /\ k >= 1
             /\ t.ret = 0
             /\ t.chk \in {k, k + 1}
             /\ Pending("checkout", id) = {})
            => /\ t.chkOK = k
               /\ Held(db, id).b.quantity = 0
               /\ (t.chk = k + 1 => t.chkNo = 1)

\* C3: no two rows of the table share an id, under any interleaving of
\* creates (two creates of one id may both pass the existence check).
C3_UniqueIds == \A i, j \in Rows : i # j => db[i].id # db[j].id

\* a create was refused by the table's key, after passing its own check
C3_Witness ==
    /\ out.op = "create"
    /\ out.resp.status = 500
    /\ ~out.seen.found
    /\ HasId(db, out.req.id)

\* C4: a create whose id (any string, "" included) was in the table when the
\* request arrived is answered 409 Conflict and the row is left as it was.
C4_DuplicateIsConflict ==
    (out.op = "create" /\ out.ok /\ out.seen.found)
    => /\ out.resp = Message(409, "Conflict")
       /\ Held(db, out.req.id) = out.seen

\* C5: a GetItem on an id created earlier, with no checkout or return
\* committed on that id since, returns 200 with the title, author and
\* quantity that the create supplied.
C5_GetAfterCreate ==
    \A id \in PathIDs :
        (/\ out.op = "get"
         /\ out.req.id = id
         /\ tally[id].made
         /\ tally[id].chkOK = 0
         /\ tally[id].retOK = 0)
        => out.resp = ItemResp(200, "OK", tally[id].orig)

\* a get answered with an item exactly as created
C5_Witness ==
    /\ out.op = "get"
    /\ tally[out.req.id].made
    /\ tally[out.req.id].chkOK + tally[out.req.id].retOK = 0
    /\ out.resp.status = 200
    /\ out.resp.item.title = "U"

\* C6: a checkout (non-empty id) that ran with no other request in flight,
\* on an item that had quantity n > 0, is answered 200, and GetItem then
\* reports the same item with quantity n - 1.
C6_CheckoutDecrements ==
    (Served("checkout") /\ out.solo /\ out.seen.found /\ out.seen.b.quantity > 0)
    => /\ out.resp.status = 200
       /\ Reported(out.req.id) =
            [err |-> "none", b |-> [out.seen.b EXCEPT !.quantity = @ - 1]]

\* a checkout alone on an item in stock has been answered
C6_Witness ==
    /\ Served("checkout")
    /\ out.solo
    /\ out.seen.found
    /\ out.seen.b.quantity > 0
    /\ out.resp.status = 200

\* C7: a checkout (non-empty id) on an item that has quantity 0 is answered
\* 400 Unavailable, and the stored row is as it was.
C7_CheckoutUnavailable ==
    (Served("checkout") /\ out.seen.found /\ out.seen.b.quantity = 0)
    => /\ out.resp = Message(400, "Unavailable")
       /\ Held(db, out.req.id) = out.seen

\* a checkout on an item with quantity 0 has been answered
C7_Witness ==
    /\ Served("checkout")
    /\ out.seen.found
    /\ out.seen.b.quantity = 0
    /\ out.resp.kind = "Unavailable"

\* C8: a return (non-empty id) that ran with no other request in flight, on
\* an item that had quantity n, is answered 200 whatever n is, and GetItem
\* then reports the same item with quantity n + 1.
C8_ReturnIncrements ==
    (Served("return") /\ out.solo /\ out.seen.found)
    => /\ out.resp.status = 200
       /\ Reported(out.req.id) =
            [err |-> "none", b |-> [out.seen.b EXCEPT !.quantity = @ + 1]]

\* a return alone on an item has been answered, above the created quantity
C8_Witness ==
    /\ Served("return")
    /\ out.solo
    /\ out.seen.found
    /\ out.seen.b.quantity >= 0
    /\ out.resp.status = 200
    /\ Reported(out.req.id).b.quantity > tally[out.req.id].orig.quantity

\* C9: a get, checkout or return (non-empty id) whose id no row had when it
\* arrived is answered 404 NotFound, and the step that answers it leaves the
\* whole table as it was.
C9_Step ==
    (/\ Completes
     /\ out'.op \in {"get", "checkout", "return"}
     /\ out'.ok
     /\ out'.req.id # ""
     /\ ~out'.seen.found)
    => /\ out'.resp = Message(404, "NotFound")
       /\ db' = db

C9_UnknownIdNotFound == [][C9_Step]_vars

\* a checkout or return of an unknown id was answered while the table had rows
C9_Witness ==
    /\ out.op \in {"checkout", "return"}
    /\ out.ok
    /\ out.req.id # ""
    /\ ~out.seen.found
    /\ out.resp.kind = "NotFound"
    /\ Len(db) > 0

\* C10: while only returns have run against an item created with quantity n,
\* every committed return counts: the stored quantity is n plus the returns
\* answered 200, and every return that found the item is answered 200 or is
\* still in flight; so k returns, however interleaved, end at n + k.
C10_ReturnsNotLost ==
    \A id \in IDs :
        LET t == tally[id]
        IN  (t.made /\ t.chk = 0)
            => /\ Held(db, id).b.quantity = t.orig.quantity + t.retOK
               /\ t.ret = t.retOK + Cardinality(Pending("return", id))

\* two returns that were in flight together have both been answered
C10_Witness ==
    /\ out.op = "return"
    /\ ~out.solo
    /\ out.resp.status = 200
    /\ tally[out.req.id].chk = 0
    /\ tally[out.req.id].retOK = 2
    /\ Pending("return", out.req.id) = {}

\* C11: a create (valid body) whose id was absent when it arrived, whatever
\* other create of the same id runs with it, is answered either 201 Created,
\* and its item is the stored one, or 409 Conflict, the other create having
\* stored the id.
C11_CreateAtomic ==
    (out.op = "create" /\ out.ok /\ ~out.seen.found)
    => \/ /\ out.resp = ItemResp(201, "Created", out.req)
          /\ Held(db, out.req.id) = [found |-> TRUE, b |-> out.req]
       \/ /\ out.resp = Message(409, "Conflict")
          /\ Held(db, out.req.id).found

\* C12: a checkout or return (non-empty id) that ran with no other request in
\* flight and was answered 200 carries the item as it was before the update:
\* quantity n in the response, n - 1 (checkout) or n + 1 (return) in the table.
C12_ResponseIsPreUpdate ==
    (out.op \in {"checkout", "return"} /\ out.solo /\ out.resp.status = 200)
    => /\ out.resp.item = out.seen.b
       /\ Held(db, out.req.id).b.quantity =
            out.resp.item.quantity + (IF out.op = "checkout" THEN -1 ELSE 1)

\* a checkout and a return, each alone, have been answered 200
C12_Witness ==
    /\ out.op \in {"checkout", "return"}
    /\ out.solo
    /\ out.resp.status = 200
    /\ tally[out.req.id].chkOK >= 1
    /\ tally[out.req.id].retOK >= 1

\* C13: every step leaves the table as it was, except the step that answers
\* a create with 201, which appends exactly the item of the request, and the
\* step that answers a checkout or return with 200, which changes the
\* quantity of the one row of that id by exactly -1 or +1.  So a request
\* answered with a failure (400, 404, 409, 500), a failed INSERT or UPDATE
\* included, has written nothing.
C13_Effect(o) ==
    IF o.op = "create" /\ o.resp.status = 201
    THEN db' = Append(db, o.req)
    ELSE IF o.op \in {"checkout", "return"} /\ o.resp.status = 200
    THEN /\ Len(db') = Len(db)
         /\ Cardinality({i \in Rows : db[i].id = o.req.id}) = 1
         /\ \A i \in Rows :
              IF db[i].id = o.req.id
              THEN db'[i] = [db[i] EXCEPT !.quantity =
                                @ + (IF o.op = "checkout" THEN -1 ELSE 1)]
              ELSE db'[i] = db[i]
    ELSE db' = db

C13_Step == IF Completes THEN C13_Effect(out') ELSE db' = db

C13_AllOrNothing == [][C13_Step]_vars

\* an UPDATE failed and its request was answered 500
C13_Witness ==
    /\ out.op \in {"checkout", "return"}
    /\ out.resp.kind = "StorageUnavailable"
    /\ out.seen.found
    /\ failing

\* C14: a get, checkout or return (non-empty id) is answered NotFound only
\* when no item has the id: with the item stored, a failed read is answered
\* StorageUnavailable, never NotFound.
C14_NotFoundOnlyIfAbsent ==
    (/\ out.op \in {"get", "checkout", "return"}
     /\ out.ok
     /\ out.req.id # ""
     /\ out.seen.found)
    => out.resp.kind # "NotFound"

\* C15: with requests processed one at a time and items created with
\* quantity >= 0, every stored quantity is >= 0 and equals the created
\* quantity minus the checkouts answered 200 plus the returns answered 200
\* (a checkout is answered 200 only from a quantity > 0).
C15_SequentialQuantity ==
    \A id \in IDs :
        Held(db, id).found
        => /\ Held(db, id).b.quantity >= 0
           /\ Held(db, id).b.quantity =
                tally[id].orig.quantity - tally[id].chkOK + tally[id].retOK

\* a checkout took an item to quantity 0 and the next one was refused
C15_Witness ==
    /\ out.op = "checkout"
    /\ out.resp.kind = "Unavailable"
    /\ tally[out.req.id].chkOK >= 1
    /\ Held(db, out.req.id).b.quantity = 0

\* C16: a checkout or return whose id is missing or "" is answered 400
\* InvalidInput by the step it arrives in, and that step leaves the table as
\* it was, even when an item with id "" is stored.
C16_Step ==
    (Completes /\ out'.op \in {"checkout", "return"} /\ out'.req.id = "")
    => /\ out'.resp = Message(400, "InvalidInput")
       /\ served' = served + 1
       /\ db' = db

C16_EmptyIdRejected == [][C16_Step]_vars

\* a checkout or return with a decoded, empty id was refused while an item
\* with id "" and quantity > 0 was stored
C16_Witness ==
    /\ out.op \in {"checkout", "return"}
    /\ out.ok
    /\ out.req.id = ""
    /\ out.resp.kind = "InvalidInput"
    /\ out.seen.found
    /\ out.seen.b.quantity > 0

\* C17: a list is answered 200 with exactly the rows of the table, each
\* created id once and no rows when the table is empty, and the table after
\* the list is the table listed.
C17_ListIsTable ==
    out.op = "list"
    => /\ out.resp.status = 200
       /\ out.resp.list = db
       /\ (db = <<>> => out.resp.list = <<>>)
       /\ \A id \in IDs :
            tally[id].made
            => Cardinality({i \in 1..Len(out.resp.list) :
                              out.resp.list[i] = Held(db, id).b}) = 1

\* a list of two items has been answered
C17_Witness ==
    /\ out.op = "list"
    /\ Len(out.resp.list) = 2

\* C18: under any interleaving, the stored quantity of a created item is the
\* created quantity minus the checkouts committed plus the returns committed,
\* and every checkout or return that found the item is answered 200 (its
\* one committed change), answered Unavailable, or still in flight.
C18_QuantityAccounting ==
    \A id \in IDs :
        LET t == tally[id]
        IN  t.made
            => /\ Held(db, id).found
               /\ Held(db, id).b.quantity = t.orig.quantity - t.chkOK + t.retOK
               /\ t.chk = t.chkOK + t.chkNo + Cardinality(Pending("checkout", id))
               /\ t.ret = t.retOK + Cardinality(Pending("return", id))

\* a checkout and a return that were in flight together have both committed
C18_Witness ==
    /\ out.op \in {"checkout", "return"}
    /\ ~out.solo
    /\ out.resp.status = 200
    /\ tally[out.req.id].chkOK >= 1
    /\ tally[out.req.id].retOK >= 1

\* C19: no step removes a row or changes a row's id, title or author; a
\* row's quantity changes only in the step that answers a checkout or return
\* of that row's id; the step that answers a get or a list changes nothing.
C19_Step ==
    /\ Len(db') >= Len(db)
    /\ \A i \in Rows :
        /\ db'[i].id = db[i].id
        /\ db'[i].title = db[i].title
        /\ db'[i].author = db[i].author
        /\ db'[i].quantity # db[i].quantity
           => /\ Completes
              /\ out'.op \in {"checkout", "return"}
              /\ out'.req.id = db[i].id
    /\ (Completes /\ out'.op \in {"get", "list"}) => db' = db

C19_Frame == [][C19_Step]_vars

\* two items are stored and the quantity of one has been changed
C19_Witness ==
    /\ Len(db) = 2
    /\ \E id \in IDs : tally[id].chkOK + tally[id].retOK >= 1

\* C20: every checkout answered 200 carries an item with quantity >= 1,
\* whatever the table holds when its UPDATE commits.
C20_CheckoutResponseInStock ==
    (out.op = "checkout" /\ out.resp.status = 200)
    => out.resp.item.quantity >= 1

\* a checkout answered 200 whose UPDATE took the stored quantity below 0
C20_Witness ==
    /\ out.op = "checkout"
    /\ out.resp.status = 200
    /\ ~out.solo
    /\ Held(db, out.req.id).b.quantity < 0

TypeOK ==
    /\ pc \in [Procs -> {"idle", "insert", "update"}]
    /\ op \in [Procs -> {"none", "create", "checkout", "return"}]
    /\ served \in 0..NumReqs
    /\ failing \in BOOLEAN

====
